---- MODULE Spec2Model ----
(***************************************************************************)
(* VidGen: the segment pipeline and media-assembly engine.                 *)
(*                                                                         *)
(* Text is modelled as a sequence of one-character strings, a file path as *)
(* a tuple whose first element names the kind of artifact, Python's None   *)
(* as the tuple <<"None">>, a dict as a sequence of entries in insertion   *)
(* order, and the value or exception a call ends with as a record.         *)
(***************************************************************************)
EXTENDS Integers, Sequences, FiniteSets, TLC

(***************************************************************************)
(* Bounds of the model.                                                    *)
(***************************************************************************)
MaxSegs == 2        \* segments in one expanded script
MaxCalls == 2       \* generate_video_segment calls made one after another
MaxFaults == 2      \* generator and tool failures in one pipeline run

(***************************************************************************)
(* Values.                                                                 *)
(***************************************************************************)
None == <<"None">>
Placeholder == <<"placeholder_image.png">>
FallbackImage == <<"fallback_character.png">>
EmptyText == <<>>
Whitespace == {" "}

Truthy(v) == v # None /\ v # EmptyText

(***************************************************************************)
(* str.strip(), ":" in s, s.split(":")[0]                                  *)
(***************************************************************************)
RECURSIVE lstrip(_)
lstrip(s) ==
    IF s # <<>> /\ Head(s) \in Whitespace THEN lstrip(Tail(s)) ELSE s

RECURSIVE rstrip(_)
rstrip(s) ==
    IF s # <<>> /\ s[Len(s)] \in Whitespace
    THEN rstrip(SubSeq(s, 1, Len(s) - 1))
    ELSE s

strip(s) == rstrip(lstrip(s))

HasColon(s) == \E i \in 1..Len(s) : s[i] = ":"

split_colon_0(s) ==
    IF HasColon(s)
    THEN LET i == CHOOSE k \in 1..Len(s) :
                     s[k] = ":" /\ \A j \in 1..(k - 1) : s[j] # ":"
         IN SubSeq(s, 1, i - 1)
    ELSE s

(***************************************************************************)
(* Results of calls: a returned value, or a raised exception.              *)
(***************************************************************************)
Returned(v) == [raised |-> FALSE, value |-> v]
Raised(e) == [raised |-> TRUE, exc |-> e]

(***************************************************************************)
(* hashlib.sha256(char_name.encode()).hexdigest() read as an integer, and  *)
(* the modulus 2**32 applied to it.  TLC's integers are 32 bits wide, so   *)
(* the digest is scaled to 16 bits and the modulus to 8 bits; the digest   *)
(* is a fixed mixing function of the bytes of the name.                    *)
(***************************************************************************)
DigestModulus == 65536
SeedModulus == 256

CharCode(c) ==
    CASE c = " " -> 32
      [] c = ":" -> 58
      [] c = "A" -> 65
      [] c = "B" -> 66
      [] c = "x" -> 120
      [] c = "y" -> 121
      [] OTHER -> 63

RECURSIVE sha256_int(_)
sha256_int(s) ==
    IF s = <<>>
    THEN 58391
    ELSE (sha256_int(SubSeq(s, 1, Len(s) - 1)) * 31 + CharCode(s[Len(s)]) * 7 + 11)
             % DigestModulus

seed_of_first_bits(char_name) == sha256_int(char_name) \div (DigestModulus \div SeedModulus)

seed_of(char_name) == sha256_int(char_name) % SeedModulus

(***************************************************************************)
(* services/script_parser.py                                               *)
(***************************************************************************)
\* float(x) of an integer x: the nearest double, ties to the even mantissa.
\* A double has a mantissa of 53 bits; the model scales it to MantissaBits.
MantissaBits == 3

RECURSIVE bit_length(_)
bit_length(n) == IF n = 0 THEN 0 ELSE 1 + bit_length(n \div 2)

round_to_mantissa(n) ==
    IF bit_length(n) <= MantissaBits THEN n
    ELSE LET ulp == 2^(bit_length(n) - MantissaBits)
             below == (n \div ulp) * ulp
         IN IF 2 * (n - below) < ulp THEN below
            ELSE IF 2 * (n - below) > ulp THEN below + ulp
            ELSE IF (n \div ulp) % 2 = 0 THEN below ELSE below + ulp

float(x) == IF x < 0 THEN 0 - round_to_mantissa(0 - x) ELSE round_to_mantissa(x)

Get(rec, key, default) == IF key \in DOMAIN rec THEN rec[key] ELSE default

validate_segment_lenient(seg) ==
    IF "start" \notin DOMAIN seg THEN Raised(<<"Missing required field", "start">>)
    ELSE IF "end" \notin DOMAIN seg THEN Raised(<<"Missing required field", "end">>)
    ELSE IF float(seg.end) <= float(seg.start)
    THEN Raised(<<"End time must be greater than start time">>)
    ELSE Returned(None)

validate_segment(seg) ==
    IF "start" \notin DOMAIN seg THEN Raised(<<"Missing required field", "start">>)
    ELSE IF "end" \notin DOMAIN seg THEN Raised(<<"Missing required field", "end">>)
    ELSE IF "narration" \notin DOMAIN seg
    THEN Raised(<<"Missing required field", "narration">>)
    ELSE IF float(seg.end) <= float(seg.start)
    THEN Raised(<<"End time must be greater than start time">>)
    ELSE Returned(None)

char_name_of(char_desc) ==
    IF HasColon(char_desc) THEN split_colon_0(strip(char_desc)) ELSE strip(char_desc)

\* character_faces: the dict of the parse, as its values in insertion order
FaceKnown(character_faces, char_name) ==
    \E k \in 1..Len(character_faces) : character_faces[k].character = char_name

FaceOf(character_faces, char_name) ==
    character_faces[CHOOSE k \in 1..Len(character_faces) :
                        character_faces[k].character = char_name]

new_face_by_prompt(char_name, char_desc) ==
    [character |-> char_name, face_prompt |-> char_desc, seed |-> seed_of(char_desc)]

new_face(char_name, char_desc) ==
    [character |-> char_name, face_prompt |-> char_desc, seed |-> seed_of(char_name)]

register_face_last(character_faces, char_desc) ==
    IF FaceKnown(character_faces, char_name_of(char_desc))
    THEN [k \in DOMAIN character_faces |->
             IF character_faces[k].character = char_name_of(char_desc)
             THEN new_face(char_name_of(char_desc), char_desc)
             ELSE character_faces[k]]
    ELSE Append(character_faces, new_face(char_name_of(char_desc), char_desc))

register_face(character_faces, char_desc) ==
    IF FaceKnown(character_faces, char_name_of(char_desc))
    THEN character_faces
    ELSE Append(character_faces, new_face(char_name_of(char_desc), char_desc))

\* seg["character_face"] = character_faces[char_name]
with_face(seg, face) ==
    [f \in DOMAIN seg \cup {"character_face"} |->
        IF f = "character_face" THEN face ELSE seg[f]]

\* the Character and ScriptSegment validators of models/data_models.py
model_validation(seg) ==
    IF "character_face" \in DOMAIN seg /\ strip(seg.character_face.character) = EmptyText
    THEN Raised(<<"Character name cannot be empty">>)
    ELSE IF float(float(seg.end) - float(seg.start)) <= 0
    THEN Raised(<<"Duration must be positive">>)
    ELSE Returned(None)

RECURSIVE parse_loop(_, _, _)
parse_loop(segments, i, acc) ==
    IF i > Len(segments)
    THEN Returned([video |-> acc.video, tts |-> acc.tts, audio |-> acc.audio,
                   image |-> acc.faces])
    ELSE LET seg == segments[i]
             char_desc == Get(seg, "image", EmptyText)
             faces == IF char_desc # EmptyText
                      THEN register_face(acc.faces, char_desc)
                      ELSE acc.faces
             seg1 == IF char_desc # EmptyText
                     THEN with_face(seg, FaceOf(faces, char_name_of(char_desc)))
                     ELSE seg
         IN IF validate_segment(seg).raised THEN validate_segment(seg)
            ELSE IF model_validation(seg1).raised THEN model_validation(seg1)
            ELSE parse_loop(segments, i + 1,
                     [video |-> Append(acc.video, seg1),
                      tts |-> Append(acc.tts, Get(seg, "narration", EmptyText)),
                      audio |-> Append(acc.audio, Get(seg, "audio", EmptyText)),
                      faces |-> faces])

\* utils/helpers.py load_json_safe: the text is a JSON list ("list"), a JSON
\* list wrapped in prose ("wrapped"), a JSON object ("object"), or no JSON at
\* all ("garbage"); text.body is what json.loads yields where it yields
load_json_safe(text) ==
    IF text.form \in {"list", "wrapped", "object"} THEN Returned(text.body)
    ELSE Returned(None)

parse_detailed_script(detailed_script) ==
    IF detailed_script.form = "garbage" \/ load_json_safe(detailed_script).value = <<>>
    THEN Raised(<<"Invalid JSON in detailed script">>)
    ELSE IF detailed_script.form = "object"
    THEN Raised(<<"Script must be a list of segments">>)
    ELSE parse_loop(load_json_safe(detailed_script).value, 1,
             [video |-> <<>>, tts |-> <<>>, audio |-> <<>>, faces |-> <<>>])

(***************************************************************************)
(* models/tts.py, models/image.py: the generators.  `outcome` is what the  *)
(* underlying engine does on this call: a path, or the failure value.      *)
(***************************************************************************)
generate_tts_audio(tts_command, outcome) ==
    IF tts_command = EmptyText \/ strip(tts_command) = EmptyText
    THEN None
    ELSE outcome

\* called with a prompt string (by the segment builder)
generate_character_image(prompt, outcome) ==
    IF strip(prompt) = EmptyText THEN Placeholder ELSE outcome

(***************************************************************************)
(* models/video.py: generate_video_segment                                 *)
(***************************************************************************)
DefaultSeed == 42
EmptyDict == <<>>

\* face_cache: None, or a dict from (character, seed) to image path
NoCache == [none |-> TRUE, map |-> {}]
EmptyCache == [none |-> FALSE, map |-> {}]

cache_has(face_cache, cache_key) == \E e \in face_cache.map : e.key = cache_key

cache_get(face_cache, cache_key) ==
    (CHOOSE e \in face_cache.map : e.key = cache_key).path

cache_put(face_cache, cache_key, image_path) ==
    [face_cache EXCEPT !.map =
        {e \in face_cache.map : e.key # cache_key}
            \cup {[key |-> cache_key, path |-> image_path]}]

segment_duration_strict(video_command, default_duration) ==
    IF Get(video_command, "end", 0) - Get(video_command, "start", 0) < 0
    THEN default_duration
    ELSE Get(video_command, "end", 0) - Get(video_command, "start", 0)

segment_duration_of(video_command, default_duration) ==
    IF Get(video_command, "end", 0) - Get(video_command, "start", 0) <= 0
    THEN default_duration
    ELSE Get(video_command, "end", 0) - Get(video_command, "start", 0)

character_face_of(video_command) == Get(video_command, "character_face", EmptyDict)
char_name_in(video_command) == Get(character_face_of(video_command), "character", EmptyText)
face_prompt_in(video_command) == Get(character_face_of(video_command), "face_prompt", EmptyText)
face_seed_in(video_command) == Get(character_face_of(video_command), "seed", DefaultSeed)
cache_key_of(video_command) == <<char_name_in(video_command), face_seed_in(video_command)>>

UsesCache(video_command, face_cache) ==
    ~face_cache.none /\ char_name_in(video_command) # EmptyText

CacheHit(video_command, face_cache) ==
    UsesCache(video_command, face_cache) /\ cache_has(face_cache, cache_key_of(video_command))

ImageUsable(image_path) == Truthy(image_path) /\ image_path # Placeholder

store_image_always(video_command, face_cache, image_path) ==
    IF UsesCache(video_command, face_cache)
    THEN cache_put(face_cache, cache_key_of(video_command), image_path)
    ELSE face_cache

store_image_never(video_command, face_cache, image_path) == face_cache

\* face_cache[cache_key] = image_path, when the image is neither missing nor
\* the placeholder
store_image(video_command, face_cache, image_path) ==
    IF UsesCache(video_command, face_cache) /\ ImageUsable(image_path)
    THEN cache_put(face_cache, cache_key_of(video_command), image_path)
    ELSE face_cache

\* create_fallback_image: the fallback path, or, when PIL cannot be imported
\* or the image cannot be written, the exception handler, whose first
\* statement reads the name `logger`, which the module never binds: NameError
create_fallback_image(pil_ok) ==
    IF pil_ok THEN Returned(FallbackImage) ELSE Raised(<<"NameError">>)

create_silent_audio_fixed(duration, uid, ffmpeg_ok) ==
    IF ffmpeg_ok
    THEN Returned(<<"silent_audio", uid, 5>>)
    ELSE Raised(<<"NameError">>)

\* create_silent_audio: the path of a silent clip of `duration` seconds, or,
\* when ffmpeg fails, the handler that reads the unbound name `logger`
create_silent_audio(duration, uid, ffmpeg_ok) ==
    IF ffmpeg_ok
    THEN Returned(<<"silent_audio", uid, duration>>)
    ELSE Raised(<<"NameError">>)

ensure_image_unchecked(image_path, pil_ok) == Returned(image_path)

\* "Ensure we have valid paths": the image handed to ffmpeg
ensure_image(image_path, pil_ok) ==
    IF ~ImageUsable(image_path) THEN create_fallback_image(pil_ok) ELSE Returned(image_path)

\* the audio handed to ffmpeg
ensure_audio(audio_path, duration, uid, ffmpeg_ok) ==
    IF ~Truthy(audio_path)
    THEN create_silent_audio(duration, uid, ffmpeg_ok)
    ELSE Returned(audio_path)

\* lines 50-93, from the TTS call to the return or the re-raised exception.
\* env: tts (what the speech engine yields), pil_ok, silent_ok, mux_ok.
\* The result carries the ffmpeg command when ffmpeg was run.
finish_segment(video_command, default_duration, image_path, uid, env) ==
    LET duration == segment_duration_of(video_command, default_duration)
        audio_path == generate_tts_audio(Get(video_command, "narration", EmptyText), env.tts)
        image == ensure_image(image_path, env.pil_ok)
        audio == ensure_audio(audio_path, duration, uid, env.silent_ok)
        NoCmd == [ran |-> FALSE]
    IN IF image.raised THEN [result |-> image, cmd |-> NoCmd, tts |-> audio_path]
       ELSE IF audio.raised THEN [result |-> audio, cmd |-> NoCmd, tts |-> audio_path]
       ELSE [result |-> IF env.mux_ok
                        THEN Returned(<<"video_segment", uid>>)
                        ELSE Raised(<<"CalledProcessError">>),
             cmd |-> [ran |-> TRUE, image |-> image.value, audio |-> audio.value,
                      t |-> duration],
             tts |-> audio_path]

\* lines 37-48: the image of the segment and the cache after it.
\* env.image is what the image model yields if it is asked.
resolve_image(video_command, face_cache, env) ==
    IF CacheHit(video_command, face_cache)
    THEN [image_path |-> cache_get(face_cache, cache_key_of(video_command)),
          face_cache |-> face_cache, generated |-> FALSE]
    ELSE [image_path |-> generate_character_image(face_prompt_in(video_command), env.image),
          face_cache |-> store_image(video_command, face_cache,
                            generate_character_image(face_prompt_in(video_command), env.image)),
          generated |-> TRUE]

\* the whole call, run by one thread without interruption
generate_video_segment(video_command, face_cache, default_duration, uid, env) ==
    LET r == resolve_image(video_command, face_cache, env)
        f == finish_segment(video_command, default_duration, r.image_path, uid, env)
    IN [result |-> f.result, cmd |-> f.cmd, tts |-> f.tts, face_cache |-> r.face_cache,
        generated |-> r.generated, raw_image |-> r.image_path]

(***************************************************************************)
(* services/video_assembler.py: assemble_video                             *)
(*                                                                         *)
(* A file exists when it is a path some generator wrote: not None and not  *)
(* the placeholder name, which no one writes.  `tools` says which runs of  *)
(* ffmpeg (and which file copy) succeed when their input files exist.  The *)
(* log lists the tool runs made, in order.                                 *)
(***************************************************************************)
NoVideoSegments == <<"no_video_segments.mp4">>
FinalVideo == <<"final_video.mp4">>
FinalAudio == <<"final_audio.wav">>

Exists(path) == path # None /\ path # Placeholder /\ path # EmptyText

AllExist(paths) == \A k \in 1..Len(paths) : Exists(paths[k])

Min(a, b) == IF a <= b THEN a ELSE b

\* os.path.basename: a path is a bare file name, or <<"dir", d>> followed by
\* the file name
basename(path) ==
    IF Len(path) > 2 /\ path[1] = "dir" THEN SubSeq(path, 3, Len(path)) ELSE path

\* the file a mix is written to: TEMP_DIR/mixed_<basename of the narration>
mixed_name(tts) == <<"mixed">> \o basename(tts)

\* the mixing loop over zip(tts_audios, background_audios), from pair k on:
\* os.path.basename(None) and a None argument of subprocess.run raise
\* TypeError, a failed run raises CalledProcessError
RECURSIVE mix_loop(_, _, _, _, _)
mix_loop(tts_audios, background_audios, k, log, tools) ==
    IF k > Min(Len(tts_audios), Len(background_audios))
    THEN [raised |-> FALSE, log |-> log]
    ELSE IF tts_audios[k] = None
    THEN [raised |-> TRUE, exc |-> <<"TypeError">>, log |-> log]
    ELSE IF background_audios[k] = None
    THEN [raised |-> TRUE, exc |-> <<"TypeError">>, log |-> log]
    ELSE IF ~(tools.mix_ok /\ Exists(tts_audios[k]) /\ Exists(background_audios[k]))
    THEN [raised |-> TRUE, exc |-> <<"CalledProcessError">>,
          log |-> Append(log, [tool |-> "mix", tts |-> tts_audios[k],
                               bg |-> background_audios[k],
                               out |-> mixed_name(tts_audios[k])])]
    ELSE mix_loop(tts_audios, background_audios, k + 1,
                  Append(log, [tool |-> "mix", tts |-> tts_audios[k],
                               bg |-> background_audios[k],
                               out |-> mixed_name(tts_audios[k])]),
                  tools)

mixed_names(tts_audios, background_audios) ==
    [k \in 1..Min(Len(tts_audios), Len(background_audios)) |-> mixed_name(tts_audios[k])]

assemble_audio_narration_only(tts_audios, background_audios, log, tools) ==
    IF tts_audios # <<>>
    THEN LET concat == [tool |-> "concat_audio", manifest |-> tts_audios]
         IN IF ~(tools.concat_audio_ok /\ AllExist(tts_audios))
            THEN [raised |-> TRUE, exc |-> <<"CalledProcessError">>,
                  log |-> Append(log, concat)]
            ELSE [raised |-> FALSE, audio_file |-> FinalAudio, log |-> Append(log, concat)]
    ELSE [raised |-> FALSE, audio_file |-> None, log |-> log]

\* lines 27-59: the final audio track, or None when there is none
assemble_audio(tts_audios, background_audios, log, tools) ==
    IF tts_audios # <<>> /\ background_audios # <<>>
    THEN LET mixed == mix_loop(tts_audios, background_audios, 1, log, tools)
             concat == [tool |-> "concat_audio",
                        manifest |-> mixed_names(tts_audios, background_audios)]
         IN IF mixed.raised THEN mixed
            ELSE IF ~tools.concat_audio_ok
            THEN [raised |-> TRUE, exc |-> <<"CalledProcessError">>,
                  log |-> Append(mixed.log, concat)]
            ELSE [raised |-> FALSE, audio_file |-> FinalAudio,
                  log |-> Append(mixed.log, concat)]
    ELSE IF tts_audios # <<>>
    THEN LET concat == [tool |-> "concat_audio", manifest |-> tts_audios]
         IN IF ~(tools.concat_audio_ok /\ AllExist(tts_audios))
            THEN [raised |-> TRUE, exc |-> <<"CalledProcessError">>,
                  log |-> Append(log, concat)]
            ELSE [raised |-> FALSE, audio_file |-> FinalAudio, log |-> Append(log, concat)]
    ELSE [raised |-> FALSE, audio_file |-> None, log |-> log]

\* lines 61-73: the audio muxed onto the concatenated video, or the video
\* copied as it is; `import shutil` is executed in the second branch only
write_output_unchecked(audio_file, log, tools) ==
    IF audio_file # None
    THEN [raised |-> FALSE, shutil_bound |-> FALSE,
          log |-> Append(log, [tool |-> "mux", audio |-> audio_file])]
    ELSE [raised |-> FALSE, shutil_bound |-> TRUE,
          log |-> Append(log, [tool |-> "copy"])]

write_output(audio_file, log, tools) ==
    IF audio_file # None
    THEN IF ~tools.mux_ok
         THEN [raised |-> TRUE, exc |-> <<"CalledProcessError">>,
               log |-> Append(log, [tool |-> "mux", audio |-> audio_file])]
         ELSE [raised |-> FALSE, shutil_bound |-> FALSE,
               log |-> Append(log, [tool |-> "mux", audio |-> audio_file])]
    ELSE IF ~tools.copy_ok
         THEN [raised |-> TRUE, exc |-> <<"OSError">>,
               log |-> Append(log, [tool |-> "copy"])]
         ELSE [raised |-> FALSE, shutil_bound |-> TRUE,
               log |-> Append(log, [tool |-> "copy"])]

\* lines 75-108: the character overlays.  A None among the images is a
\* TypeError of subprocess.run; a failed run is caught and the output kept;
\* after a successful run shutil.copy2 is reached, and `shutil` is a local
\* name of the function, bound only if the import above was executed
overlay_characters(character_images, shutil_bound, log, tools) ==
    LET overlay == [tool |-> "overlay", images |-> character_images]
    IN IF character_images = <<>>
       THEN [raised |-> FALSE, log |-> log]
       ELSE IF \E k \in 1..Len(character_images) : character_images[k] = None
       THEN [raised |-> TRUE, exc |-> <<"TypeError">>, log |-> log]
       ELSE IF ~(tools.overlay_ok /\ AllExist(character_images))
       THEN [raised |-> FALSE, log |-> Append(log, overlay)]
       ELSE IF ~shutil_bound
       THEN [raised |-> TRUE, exc |-> <<"UnboundLocalError">>, log |-> Append(log, overlay)]
       ELSE IF ~tools.copy_ok
       THEN [raised |-> TRUE, exc |-> <<"OSError">>,
             log |-> Append(Append(log, overlay), [tool |-> "copy_overlay"])]
       ELSE [raised |-> FALSE,
             log |-> Append(Append(log, overlay), [tool |-> "copy_overlay"])]

\* lines 13-117: the steps on a non-empty clip list; every exception raised
\* inside is caught and turned into None
assemble_steps(video_segments, tts_audios, background_audios, character_images, output_path, tools) ==
    LET concat == <<[tool |-> "concat_video", manifest |-> video_segments]>>
        audio == assemble_audio(tts_audios, background_audios, concat, tools)
        out == write_output(audio.audio_file, audio.log, tools)
        over == overlay_characters(character_images, out.shutil_bound, out.log, tools)
    IN IF ~(tools.concat_ok /\ AllExist(video_segments))
       THEN [value |-> None, log |-> concat]
       ELSE IF audio.raised THEN [value |-> None, log |-> audio.log]
       ELSE IF out.raised THEN [value |-> None, log |-> out.log]
       ELSE IF over.raised THEN [value |-> None, log |-> over.log]
       ELSE [value |-> IF output_path = None THEN FinalVideo ELSE output_path,
             log |-> over.log]

assemble_video_unguarded(video_segments, tts_audios, background_audios, character_images, output_path, tools) ==
    assemble_steps(video_segments, tts_audios, background_audios, character_images,
                   output_path, tools)

\* the whole function
assemble_video(video_segments, tts_audios, background_audios, character_images, output_path, tools) ==
    IF video_segments = <<>>
    THEN [value |-> NoVideoSegments, log |-> <<>>]
    ELSE assemble_steps(video_segments, tts_audios, background_audios, character_images,
                        output_path, tools)

AssemblerTools ==
    [concat_ok : BOOLEAN, mix_ok : BOOLEAN, concat_audio_ok : BOOLEAN,
     mux_ok : BOOLEAN, copy_ok : BOOLEAN, overlay_ok : BOOLEAN]

AllToolsOk(tools) ==
    /\ tools.concat_ok /\ tools.mix_ok /\ tools.concat_audio_ok
    /\ tools.mux_ok /\ tools.copy_ok /\ tools.overlay_ok

(***************************************************************************)
(* models/audio.py: generate_background_audio.  The synthesized file, or   *)
(* when synthesis fails the silent fallback clip, or None when that fails  *)
(* too.                                                                    *)
(***************************************************************************)
SilenceFallback == <<"silence_fallback.wav">>

generate_background_audio(audio_command, uid, env) ==
    IF env.synth_ok THEN <<"background_audio", uid>>
    ELSE IF env.fallback_ok THEN SilenceFallback
    ELSE None

\* called with a command dict (by the character-image stage): the prompt and
\* the seed are read from the dict
generate_character_image_cmd(image_command, seed, outcome) ==
    IF strip(Get(image_command, "face_prompt", Get(image_command, "character", EmptyText)))
         = EmptyText
    THEN Placeholder
    ELSE outcome

image_cmd_key(image_command, seed) ==
    <<Get(image_command, "character", <<"unknown">>), Get(image_command, "seed", seed)>>

(***************************************************************************)
(* main.py: the safe wrappers and the result tuples of generate_video_async*)
(***************************************************************************)
\* try: return f(...)  except Exception: return None
safe_call(outcome) == IF outcome.raised THEN None ELSE outcome.value

\* not text
BlankUnstripped(text) == text = EmptyText

\* not text or not text.strip()
Blank(text) == text = EmptyText \/ strip(text) = EmptyText

ErrorResult(message) == Returned(<<message, None, <<>>, <<>>, <<>>, <<>>, None>>)

on_empty_script == ErrorResult(<<"Error: Please provide a script">>)
on_empty_key == ErrorResult(<<"Error: Please provide a valid Gemini API key">>)
on_no_response == ErrorResult(<<"Error: Failed to get response from Gemini API">>)
on_api_error(e) == ErrorResult(<<"Error: Gemini API call failed", e>>)

on_parse_error_drops_text(detailed_script, e) == ErrorResult(<<"Error: Script parsing failed", e>>)

on_parse_error_raise(detailed_script, e) == Raised(e)

on_parse_error(detailed_script, e) ==
    Returned(<<<<"text", detailed_script>>, <<"Error: Script parsing failed", e>>,
               <<>>, <<>>, <<>>, <<>>, None>>)

final_result(detailed_script, parsed, tts_audios, character_images, video_segments, background_audios, final_video_path) ==
    Returned(<<<<"text", detailed_script>>, <<"str", parsed>>, tts_audios,
               character_images, video_segments, background_audios, final_video_path>>)

after_stage_abort(stage, results) ==
    CASE stage = "video" ->
             IF \A k \in 1..Len(results) : results[k] = None THEN "done" ELSE "tts"
      [] stage = "tts" -> "background"
      [] stage = "background" -> "image"
      [] stage = "image" -> "assemble"

\* the stage that follows a generation stage: whatever the stage produced,
\* the next one is run, and assembly follows the last
after_stage(stage, results) ==
    CASE stage = "video" -> "tts"
      [] stage = "tts" -> "background"
      [] stage = "background" -> "image"
      [] stage = "image" -> "assemble"

(***************************************************************************)
(* State.                                                                  *)
(*   sq_*: generate_video_segment called MaxCalls times one after another  *)
(*         on one face cache (as the tests do): the cache, the number of   *)
(*         calls made, the last call with its outcome, and the log of the  *)
(*         calls made to the image generator (what a mock records).        *)
(*   the others: one run of generate_video_async.  pc is the statement the *)
(*         coroutine is at; workers[i] is the executor thread that runs    *)
(*         safe_generate_video_segment for segment i; image_calls logs the *)
(*         calls of generate_character_image, assembled the calls of       *)
(*         assemble_video; faults counts the failures injected so far.     *)
(***************************************************************************)
VARIABLES vs_seg, vs_result,
          av_call, av_result,
          ps_first, ps_second,
          sq_cache, sq_n, sq_last, sq_gen,
          pl_call, pc, detailed_script, parsed, face_cache, workers,
          video_segments, tts_audios, background_audios, character_images,
          image_calls, assembled, result, faults,
          image_pipeline, image_pipeline_lock, ip_pc, ip_calls, ip_returned, ip_loads, ip_faults,
          bg_call, bg_result,
          ca_in, ca_pc, ca_fs, ca_reads

vsVars == <<vs_seg, vs_result>>
avVars == <<av_call, av_result>>
psVars == <<ps_first, ps_second>>
sqVars == <<sq_cache, sq_n, sq_last, sq_gen>>
ipVars == <<image_pipeline, image_pipeline_lock, ip_pc, ip_calls, ip_returned, ip_loads, ip_faults>>
bgVars == <<bg_call, bg_result>>
caVars == <<ca_in, ca_pc, ca_fs, ca_reads>>
plVars == <<pl_call, pc, detailed_script, parsed, face_cache, workers, video_segments,
            tts_audios, background_audios, character_images, image_calls,
            assembled, result, faults>>
vars == <<vs_seg, vs_result, av_call, av_result,
          ps_first, ps_second,
          sq_cache, sq_n, sq_last, sq_gen,
          pl_call, pc, detailed_script, parsed, face_cache, workers, video_segments,
          tts_audios, background_audios, character_images, image_calls,
          assembled, result, faults,
          image_pipeline, image_pipeline_lock, ip_pc, ip_calls, ip_returned, ip_loads, ip_faults,
          bg_call, bg_result,
          ca_in, ca_pc, ca_fs, ca_reads>>

NoParse == [made |-> FALSE]
NoCall == [made |-> FALSE]
Pending == <<"pending">>
Running == [raised |-> FALSE, value |-> <<"running">>]

MaxCallers == 2
Callers == 1..MaxCallers
Unlocked == 0

\* get_image_pipeline has not been called: the module was just imported
IpFresh ==
    /\ image_pipeline = None
    /\ image_pipeline_lock = Unlocked
    /\ ip_calls = [t \in Callers |-> 0]
    /\ ip_returned = {}
    /\ ip_loads = 0
    /\ ip_faults = 0

IpIdle == IpFresh /\ ip_pc = [t \in Callers |-> "off"]

\* generate_background_audio is not being called on its own
BgIdle ==
    /\ bg_call = NoCall
    /\ bg_result = NoCall

\* the pipeline runs whose assemblies share the process
Runs == {1, 2}
NoRun == 0

\* the files assemble_video writes under TEMP_DIR
TempFiles == {"segments.txt", "temp_video.mp4", "audios.txt", "final_audio.wav"}

\* no two runs are assembling side by side
CaIdle ==
    /\ ca_in = [r \in Runs |-> FALSE]
    /\ ca_pc = [r \in Runs |-> "off"]
    /\ ca_fs = [f \in TempFiles |-> NoRun]
    /\ ca_reads = [r \in Runs |-> {}]

\* validate_segment is not being called on its own
VsIdle ==
    /\ vs_seg = NoCall
    /\ vs_result = NoCall

\* assemble_video is not being called on its own
AvIdle ==
    /\ av_call = NoCall
    /\ av_result = NoCall

\* no parse is being compared
PsIdle ==
    /\ ps_first = NoParse
    /\ ps_second = NoParse

\* no sequential calls are being made
SqIdle ==
    /\ sq_cache = NoCache
    /\ sq_n = MaxCalls
    /\ sq_last = NoCall
    /\ sq_gen = <<>>

\* generate_video_async has not been called
PlFresh(at) ==
    /\ pl_call = NoCall
    /\ pc = at
    /\ detailed_script = [state |-> "none"]
    /\ parsed = [state |-> "none"]
    /\ face_cache = NoCache
    /\ workers = <<>>
    /\ video_segments = <<>>
    /\ tts_audios = <<>>
    /\ background_audios = <<>>
    /\ character_images = <<>>
    /\ image_calls = {}
    /\ assembled = <<>>
    /\ result = Running
    /\ faults = 0

(***************************************************************************)
(* Inputs of the sequential calls.                                         *)
(***************************************************************************)
FaceA1 == [character |-> <<"A">>, face_prompt |-> <<"A", ":", "x">>, seed |-> seed_of(<<"A">>)]
FaceA2 == [character |-> <<"A">>, face_prompt |-> <<"A", ":", "y">>, seed |-> seed_of(<<"A">>)]
FaceA3 == [character |-> <<"A">>, face_prompt |-> <<"A", ":", "x">>, seed |-> DefaultSeed]
FaceB == [character |-> <<"B">>, face_prompt |-> <<"B">>, seed |-> seed_of(<<"B">>)]

VideoCommands ==
    { [start |-> 2, end |-> 7, narration |-> <<"x">>, character_face |-> FaceA1],
      [start |-> 0, end |-> 3, narration |-> <<>>, character_face |-> FaceA2],
      [start |-> 5, end |-> 5, narration |-> <<"y">>, character_face |-> FaceA3],
      [start |-> 1, end |-> 2, narration |-> <<"x">>, character_face |-> FaceB],
      [narration |-> <<" ">>, character_face |-> EmptyDict],
      [start |-> 7, end |-> 2, narration |-> <<"x">>],
      [start |-> 4, narration |-> <<"y">>] }

DefaultDurations == {3, 5}

\* what the collaborators of one call do: the image model and the speech
\* engine yield a file or fail, and at most one of PIL, the ffmpeg run that
\* synthesizes silence and the ffmpeg run that muxes fails (the first failure
\* ends the call, so a second one would not be seen)
BuilderEnvs(uid) ==
    {env \in [image : {<<"character", uid>>, Placeholder},
              tts : {<<"tts_audio", uid>>, None},
              pil_ok : BOOLEAN, silent_ok : BOOLEAN, mux_ok : BOOLEAN] :
        Cardinality({b \in {"pil", "silent", "mux"} :
            \/ b = "pil" /\ ~env.pil_ok
            \/ b = "silent" /\ ~env.silent_ok
            \/ b = "mux" /\ ~env.mux_ok}) <= 1}

SqInit ==
    /\ sq_cache \in {NoCache, EmptyCache}
    /\ sq_n = 0
    /\ sq_last = NoCall
    /\ sq_gen = <<>>
    /\ VsIdle
    /\ AvIdle /\ CaIdle /\ BgIdle /\ IpIdle
    /\ PsIdle
    /\ PlFresh("off")

\* one call of generate_video_segment(video_command, face_cache, default_duration)
SqCall(video_command, default_duration, env) ==
    LET out == generate_video_segment(video_command, sq_cache, default_duration,
                                      sq_n + 1, env)
    IN /\ sq_n < MaxCalls
       /\ sq_n' = sq_n + 1
       /\ sq_cache' = out.face_cache
       /\ sq_last' = [made |-> TRUE, video_command |-> video_command,
                      default_duration |-> default_duration,
                      hit |-> CacheHit(video_command, sq_cache),
                      result |-> out.result, cmd |-> out.cmd, tts |-> out.tts,
                      raw_image |-> out.raw_image,
                      tools_ok |-> [pil |-> env.pil_ok, silent |-> env.silent_ok,
                                    mux |-> env.mux_ok]]
       /\ sq_gen' = IF out.generated
                    THEN Append(sq_gen, [key |-> cache_key_of(video_command),
                                         image |-> out.raw_image])
                    ELSE sq_gen
       /\ UNCHANGED <<vsVars, avVars, psVars, plVars, ipVars, bgVars, caVars>>

SqNext ==
    \E video_command \in VideoCommands, default_duration \in DefaultDurations :
        \E env \in BuilderEnvs(sq_n + 1) :
            SqCall(video_command, default_duration, env)

SpecSegment == SqInit /\ [][SqNext]_vars

(***************************************************************************)
(* assemble_video called on its own, as tests/test_services/               *)
(* test_video_assembler.py calls it, with subprocess.run mocked.           *)
(***************************************************************************)
Segment1 == <<"segment1.mp4">>
Segment2 == <<"segment2.mp4">>
Speech1 == <<"speech1.wav">>
Speech2 == <<"speech2.wav">>
Music1 == <<"music1.wav">>
Music2 == <<"music2.wav">>
Character1 == <<"character1.png">>
Character2 == <<"character2.png">>
OutputPath == <<"output.mp4">>

InDir(d, path) == <<"dir", d>> \o path

AssembledVideos == {<<>>, <<Segment1>>, <<Segment1, Segment2>>, <<Segment2, Segment1>>}

AssembledSpeech ==
    {<<>>, <<Speech1>>, <<Speech1, Speech2>>, <<Speech2, Speech1>>, <<Speech1, Speech1>>,
     <<InDir("a", Speech1), InDir("b", Speech1)>>, <<None>>}

AssembledMusic == {<<>>, <<Music1>>, <<Music1, Music2>>, <<None>>}

AssembledCharacters ==
    {<<>>, <<Character1>>, <<Character1, Character2>>, <<None>>, <<Placeholder>>}

\* at most one tool fails in a call: the first failure ends it
SingleFaultTools == {tools \in AssemblerTools : Cardinality({f \in DOMAIN tools : ~tools[f]}) <= 1}

AvInit ==
    /\ av_call \in [made : {TRUE}, video_segments : AssembledVideos,
                    tts_audios : AssembledSpeech, background_audios : AssembledMusic,
                    character_images : AssembledCharacters,
                    output_path : {None, OutputPath}, tools : SingleFaultTools]
    /\ av_result = NoCall
    /\ VsIdle
    /\ IpIdle
    /\ BgIdle
    /\ CaIdle
    /\ PsIdle
    /\ SqIdle
    /\ PlFresh("off")

AvAssemble ==
    LET out == assemble_video(av_call.video_segments, av_call.tts_audios,
                              av_call.background_audios, av_call.character_images,
                              av_call.output_path, av_call.tools)
    IN /\ av_call.made
       /\ ~av_result.made
       /\ av_result' = [made |-> TRUE, value |-> out.value, log |-> out.log]
       /\ UNCHANGED <<av_call, vsVars, psVars, sqVars, plVars, ipVars, bgVars, caVars>>

AvNext == AvAssemble

SpecAssemble == AvInit /\ [][AvNext]_vars

(***************************************************************************)
(* validate_segment called on its own, as test_validate_segment_* call it. *)
(***************************************************************************)
Timestamps == {0, 2, 5, 8, 9}

FieldChoices(values) == {[has |-> FALSE]} \cup {[has |-> TRUE, v |-> x] : x \in values}

segment_of(choice) ==
    [f \in {x \in DOMAIN choice : choice[x].has} |-> choice[f].v]

ValidatedSegments ==
    {segment_of(choice) :
        choice \in [start : FieldChoices(Timestamps), end : FieldChoices(Timestamps),
                    narration : FieldChoices({<<"x">>})]}

VsInit ==
    /\ vs_seg \in {[made |-> TRUE, seg |-> seg] : seg \in ValidatedSegments}
    /\ vs_result = NoCall
    /\ AvIdle /\ CaIdle /\ BgIdle /\ IpIdle
    /\ PsIdle
    /\ SqIdle
    /\ PlFresh("off")

VsValidate ==
    /\ vs_seg.made
    /\ ~vs_result.made
    /\ vs_result' = [made |-> TRUE, result |-> validate_segment(vs_seg.seg)]
    /\ UNCHANGED <<vs_seg, avVars, psVars, sqVars, plVars, ipVars, bgVars, caVars>>

VsNext == VsValidate

SpecValidate == VsInit /\ [][VsNext]_vars

(***************************************************************************)
(* Two independent parses, as test_character_face_generation makes them:   *)
(* parse_detailed_script is called twice, each call with its own           *)
(* character_faces dict.                                                   *)
(***************************************************************************)
Described(image) == [start |-> 0, end |-> 5, narration |-> <<"x">>, image |-> image]

ParsedSegments ==
    {Described(<<"A", ":", "x">>), Described(<<"A", ":", "y">>),
     Described(<<" ", "A", ":", "x">>), Described(<<"A", " ", ":", "y">>),
     Described(<<"B">>), Described(<<":", "x">>)}

SeqsUpTo(S, n) == UNION {[1..k -> S] : k \in 1..n}

ParsedScripts ==
    {[form |-> "list", body |-> b] : b \in SeqsUpTo(ParsedSegments, MaxSegs)}

\* what a caller reads off a parse: for each segment the description it was
\* given and the name and seed of the character_face it carries
identities_of(p) ==
    IF p.raised THEN {}
    ELSE {[desc |-> p.value.video[k].image,
           name |-> p.value.video[k].character_face.character,
           seed |-> p.value.video[k].character_face.seed] :
              k \in {j \in 1..Len(p.value.video) :
                        "character_face" \in DOMAIN p.value.video[j]}}

parse_of(text) ==
    [made |-> TRUE, script |-> text.body,
     raised |-> parse_detailed_script(text).raised,
     result |-> parse_detailed_script(text),
     identities |-> identities_of(parse_detailed_script(text))]

PsInit ==
    /\ VsIdle
    /\ AvIdle /\ CaIdle /\ BgIdle /\ IpIdle
    /\ PsIdle
    /\ SqIdle
    /\ PlFresh("off")

PsFirst(text) ==
    /\ ~ps_first.made
    /\ ps_first' = parse_of(text)
    /\ UNCHANGED <<vsVars, avVars, ps_second, sqVars, plVars, ipVars, bgVars, caVars>>

PsSecond(text) ==
    /\ ps_first.made
    /\ ~ps_second.made
    /\ ps_second' = parse_of(text)
    /\ UNCHANGED <<vsVars, avVars, ps_first, sqVars, plVars, ipVars, bgVars, caVars>>

PsNext ==
    \/ \E text \in ParsedScripts : PsFirst(text)
    \/ \E text \in ParsedScripts : PsSecond(text)

SpecParse == PsInit /\ [][PsNext]_vars

(***************************************************************************)
(* One run of generate_video_async (main.py), called as generate_video     *)
(* calls it, without a progress callback.                                  *)
(***************************************************************************)
ScriptTexts == {<<>>, <<" ">>, <<"x">>}

\* the segments the expansion collaborator may return
SegAx == [start |-> 0, end |-> 5, narration |-> <<"x">>, audio |-> <<"x">>,
          image |-> <<"A", ":", "x">>]
SegAy == [start |-> 5, end |-> 7, narration |-> <<>>, audio |-> <<>>,
          image |-> <<"A", ":", "y">>]
SegFaceless == [start |-> 0, end |-> 5, narration |-> <<"y">>, audio |-> <<"y">>]
SegBadTiming == [start |-> 5, end |-> 5, narration |-> <<"x">>, image |-> <<"B">>]
SegNoNarration == [start |-> 0, end |-> 5, audio |-> <<"x">>, image |-> <<"B">>]

\* the scripts the expansion collaborator may answer with: one and two
\* segments, a repeated character, one character under two descriptions, a
\* segment without a character, a segment the parser rejects
ExpandedScripts ==
    {<<SegAx>>, <<SegFaceless>>, <<SegBadTiming>>,
     <<SegAx, SegAx>>, <<SegAx, SegAy>>, <<SegAy, SegFaceless>>,
     <<SegFaceless, SegAx>>, <<SegAx, SegBadTiming>>, <<SegAx, SegNoNarration>>,
     <<SegAx, SegAy, SegFaceless>>, <<SegAx, SegAx, SegAx>>}

DetailedScripts ==
    {[form |-> "garbage", body |-> <<>>]}
        \cup {[form |-> "list", body |-> b] :
                 b \in {e \in ExpandedScripts : Len(e) <= MaxSegs}}

\* what call_gemini_api does: returns the text, returns None, or raises
ExpansionOutcomes ==
    {Returned([state |-> "text", text |-> t]) : t \in DetailedScripts}
        \cup {Returned([state |-> "none"]), Raised(<<"RuntimeError">>)}

N == Len(parsed.value.video)

AllDone(results) == \A k \in 1..Len(results) : results[k] # Pending

ToolFaults(env) ==
    (IF env.pil_ok THEN 0 ELSE 1) + (IF env.silent_ok THEN 0 ELSE 1)
        + (IF env.mux_ok THEN 0 ELSE 1)

AssemblerFaults(tools) ==
    Cardinality({f \in DOMAIN tools : ~tools[f]})

gather_put_by_completion(results, i, value) ==
    LET k == CHOOSE j \in 1..Len(results) :
                 results[j] = Pending /\ \A h \in 1..(j - 1) : results[h] # Pending
    IN  [results EXCEPT ![k] = value]

\* asyncio.gather: the value task i returns is element i of the list
gather_put(results, i, value) == [results EXCEPT ![i] = value]

PlInit == VsIdle /\ AvIdle /\ CaIdle /\ BgIdle /\ IpIdle /\ PsIdle /\ SqIdle /\ PlFresh("validate")

Finish(res) ==
    /\ pc' = "done"
    /\ result' = res

\* lines 82-89: the input checks
PlValidate(script, gemini_api_key) ==
    /\ pc = "validate"
    /\ pl_call' = [made |-> TRUE, script |-> script, gemini_api_key |-> gemini_api_key]
    /\ IF Blank(script) THEN Finish(on_empty_script)
       ELSE IF Blank(gemini_api_key) THEN Finish(on_empty_key)
       ELSE pc' = "expand" /\ UNCHANGED result
    /\ UNCHANGED <<detailed_script, parsed, face_cache, workers, video_segments,
                   tts_audios, background_audios, character_images, image_calls,
                   assembled, faults>>
    /\ UNCHANGED <<vsVars, avVars, psVars, sqVars, ipVars, bgVars, caVars>>

\* lines 95-103: call_gemini_api
PlExpand(outcome) ==
    /\ pc = "expand"
    /\ IF outcome.raised
       THEN /\ Finish(on_api_error(outcome.exc))
            /\ detailed_script' = [state |-> "raised", exc |-> outcome.exc]
       ELSE IF outcome.value.state = "none"
       THEN Finish(on_no_response) /\ UNCHANGED detailed_script
       ELSE pc' = "parse" /\ detailed_script' = outcome.value /\ UNCHANGED result
    /\ UNCHANGED <<parsed, face_cache, workers, video_segments,
                   tts_audios, background_audios, character_images, image_calls,
                   assembled, faults>>
    /\ UNCHANGED <<vsVars, avVars, psVars, sqVars, pl_call, ipVars, bgVars, caVars>>

\* lines 105-116: parse_detailed_script, then face_cache = {}
PlParse ==
    /\ pc = "parse"
    /\ \E p \in {parse_detailed_script(detailed_script.text)} :
       /\ IF p.raised
          THEN /\ Finish(on_parse_error(detailed_script.text, p.exc))
               /\ parsed' = [state |-> "failed", exc |-> p.exc]
               /\ UNCHANGED <<face_cache, workers, video_segments, tts_audios,
                              background_audios, character_images>>
          ELSE /\ pc' = "video"
               /\ parsed' = [state |-> "ok", value |-> p.value]
               /\ face_cache' = EmptyCache
               /\ workers' = [k \in 1..Len(p.value.video) |->
                                 [at |-> "check", image_path |-> None]]
               /\ video_segments' = [k \in 1..Len(p.value.video) |-> Pending]
               /\ tts_audios' = [k \in 1..Len(p.value.tts) |-> Pending]
               /\ background_audios' = [k \in 1..Len(p.value.audio) |-> Pending]
               /\ character_images' = [k \in 1..Len(p.value.image) |-> Pending]
               /\ UNCHANGED result
       /\ UNCHANGED <<detailed_script, image_calls, assembled, faults>>
       /\ UNCHANGED <<vsVars, avVars, psVars, sqVars, pl_call, ipVars, bgVars, caVars>>

\* worker i, video.py lines 38-41: the look-up in the shared cache
PlWorkerCheck(i) ==
    /\ pc = "video"
    /\ workers[i].at = "check"
    /\ workers' = [workers EXCEPT ![i] =
          IF CacheHit(parsed.value.video[i], face_cache)
          THEN [at |-> "finish",
                image_path |-> cache_get(face_cache, cache_key_of(parsed.value.video[i]))]
          ELSE [at |-> "generate", image_path |-> None]]
    /\ UNCHANGED <<pc, detailed_script, parsed, face_cache, video_segments, tts_audios,
                   background_audios, character_images, image_calls, assembled,
                   result, faults>>
    /\ UNCHANGED <<vsVars, avVars, psVars, sqVars, pl_call, ipVars, bgVars, caVars>>

\* worker i, video.py lines 44-48: the image generator is called and its
\* image stored in the shared cache
PlWorkerGenerate(i, outcome) ==
    LET video_command == parsed.value.video[i]
        image_path == generate_character_image(face_prompt_in(video_command), outcome)
    IN /\ pc = "video"
       /\ workers[i].at = "generate"
       /\ faults' = faults + (IF outcome = Placeholder THEN 1 ELSE 0)
       /\ faults' <= MaxFaults
       /\ image_calls' = image_calls
             \cup {[key |-> cache_key_of(video_command), by |-> <<"video", i>>]}
       /\ face_cache' = store_image(video_command, face_cache, image_path)
       /\ workers' = [workers EXCEPT ![i] = [at |-> "finish", image_path |-> image_path]]
       /\ UNCHANGED <<pc, detailed_script, parsed, video_segments, tts_audios,
                      background_audios, character_images, assembled, result>>
       /\ UNCHANGED <<vsVars, avVars, psVars, sqVars, pl_call, ipVars, bgVars, caVars>>

\* worker i, video.py lines 50-93 inside safe_generate_video_segment
PlWorkerFinish(i, segment_duration, env) ==
    LET out == finish_segment(parsed.value.video[i], segment_duration,
                              workers[i].image_path, <<"video", i>>, env)
    IN /\ pc = "video"
       /\ workers[i].at = "finish"
       /\ faults' = faults + ToolFaults(env) + (IF env.tts = None THEN 1 ELSE 0)
       /\ faults' <= MaxFaults
       /\ video_segments' = gather_put(video_segments, i, safe_call(out.result))
       /\ workers' = [workers EXCEPT ![i].at = "done"]
       /\ UNCHANGED <<pc, detailed_script, parsed, face_cache, tts_audios,
                      background_audios, character_images, image_calls, assembled,
                      result>>
       /\ UNCHANGED <<vsVars, avVars, psVars, sqVars, pl_call, ipVars, bgVars, caVars>>

\* asyncio.gather returns once every task of the stage has returned
PlAwait(stage, results) ==
    /\ pc = stage
    /\ AllDone(results)
    /\ pc' = after_stage(stage, results)
    /\ UNCHANGED <<detailed_script, parsed, face_cache, workers, video_segments,
                   tts_audios, background_audios, character_images, image_calls,
                   assembled, result, faults>>
    /\ UNCHANGED <<vsVars, avVars, psVars, sqVars, pl_call, ipVars, bgVars, caVars>>

PlAwaitVideo == PlAwait("video", video_segments)
PlAwaitTts == PlAwait("tts", tts_audios)
PlAwaitBackground == PlAwait("background", background_audios)
PlAwaitImages == PlAwait("image", character_images)

\* safe_generate_tts_audio(parsed["tts"][i])
PlTts(i, outcome) ==
    /\ pc = "tts"
    /\ tts_audios[i] = Pending
    /\ faults' = faults + (IF outcome = None THEN 1 ELSE 0)
    /\ faults' <= MaxFaults
    /\ tts_audios' = gather_put(tts_audios, i,
          safe_call(Returned(generate_tts_audio(parsed.value.tts[i], outcome))))
    /\ UNCHANGED <<pc, detailed_script, parsed, face_cache, workers, video_segments,
                   background_audios, character_images, image_calls, assembled, result>>
    /\ UNCHANGED <<vsVars, avVars, psVars, sqVars, pl_call, ipVars, bgVars, caVars>>

\* safe_generate_background_audio(parsed["audio"][i])
PlBackground(i, env) ==
    /\ pc = "background"
    /\ background_audios[i] = Pending
    /\ faults' = faults + Cardinality({f \in DOMAIN env : ~env[f]})
    /\ faults' <= MaxFaults
    /\ background_audios' = gather_put(background_audios, i,
          safe_call(Returned(generate_background_audio(parsed.value.audio[i],
                                                       <<"background", i>>, env))))
    /\ UNCHANGED <<pc, detailed_script, parsed, face_cache, workers, video_segments,
                   tts_audios, character_images, image_calls, assembled, result>>
    /\ UNCHANGED <<vsVars, avVars, psVars, sqVars, pl_call, ipVars, bgVars, caVars>>

\* safe_generate_character_image(parsed["image"][j], seed)
PlImage(j, seed, outcome) ==
    /\ pc = "image"
    /\ character_images[j] = Pending
    /\ faults' = faults + (IF outcome = Placeholder THEN 1 ELSE 0)
    /\ faults' <= MaxFaults
    /\ image_calls' = image_calls
          \cup {[key |-> image_cmd_key(parsed.value.image[j], seed), by |-> <<"image", j>>]}
    /\ character_images' = gather_put(character_images, j,
          safe_call(Returned(generate_character_image_cmd(parsed.value.image[j], seed,
                                                          outcome))))
    /\ UNCHANGED <<pc, detailed_script, parsed, face_cache, workers, video_segments,
                   tts_audios, background_audios, assembled, result>>
    /\ UNCHANGED <<vsVars, avVars, psVars, sqVars, pl_call, ipVars, bgVars, caVars>>

\* lines 175-197: safe_assemble_video, then the result tuple
PlAssemble(tools) ==
    LET out == assemble_video(video_segments, tts_audios, background_audios,
                              character_images, None, tools)
    IN /\ pc = "assemble"
       /\ faults' = faults + AssemblerFaults(tools)
       /\ faults' <= MaxFaults
       /\ assembled' = Append(assembled,
             [video_segments |-> video_segments, tts_audios |-> tts_audios,
              background_audios |-> background_audios,
              character_images |-> character_images, tools_ok |-> AllToolsOk(tools)])
       /\ Finish(final_result(detailed_script.text, parsed.value, tts_audios,
                              character_images, video_segments, background_audios,
                              safe_call(Returned(out.value))))
       /\ UNCHANGED <<detailed_script, parsed, face_cache, workers, video_segments,
                      tts_audios, background_audios, character_images, image_calls>>
       /\ UNCHANGED <<vsVars, avVars, psVars, sqVars, pl_call, ipVars, bgVars, caVars>>

SegmentDurations == {5}
Seeds == {42}

PlNext ==
    \/ \E script \in ScriptTexts, gemini_api_key \in ScriptTexts :
           PlValidate(script, gemini_api_key)
    \/ \E outcome \in ExpansionOutcomes : PlExpand(outcome)
    \/ PlParse
    \/ \E i \in DOMAIN workers : PlWorkerCheck(i)
    \/ \E i \in DOMAIN workers :
           \E outcome \in {<<"character", <<"video", i>>>>, Placeholder} :
               PlWorkerGenerate(i, outcome)
    \/ \E i \in DOMAIN workers, d \in SegmentDurations :
           \E env \in BuilderEnvs(<<"video", i>>) :
               env.image = Placeholder /\ PlWorkerFinish(i, d, env)
    \/ PlAwaitVideo
    \/ \E i \in DOMAIN tts_audios :
           \E outcome \in {<<"tts_audio", <<"tts", i>>>>, None} : PlTts(i, outcome)
    \/ PlAwaitTts
    \/ \E i \in DOMAIN background_audios :
           \E env \in [synth_ok : BOOLEAN, fallback_ok : BOOLEAN] : PlBackground(i, env)
    \/ PlAwaitBackground
    \/ \E j \in DOMAIN character_images, seed \in Seeds :
           \E outcome \in {<<"character", <<"image", j>>>>, Placeholder} :
               PlImage(j, seed, outcome)
    \/ PlAwaitImages
    \/ \E tools \in AssemblerTools : PlAssemble(tools)

Spec == PlInit /\ [][PlNext]_vars

(***************************************************************************)
(* Claims about generate_video_segment, under SpecSegment.                 *)
(***************************************************************************)
SameKeyTwice(i, j) ==
    /\ i < j
    /\ sq_gen[i].key = sq_gen[j].key
    /\ sq_gen[i].key[1] # EmptyText

\* C3 as stated: calls made one after another on one face cache invoke the
\* image generator at most once for one (name, seed), whatever the first
\* invocation returned.
C3_AtMostOnceAnyOutcome ==
    ~sq_cache.none =>
        \A i, j \in DOMAIN sq_gen : ~SameKeyTwice(i, j)

\* C3 amended: the image generator is invoked again for a (name, seed) only
\* if every earlier invocation for it failed (returned the placeholder): once
\* an invocation has returned a usable image, no later call invokes it.
C3_AtMostOnceAfterSuccess ==
    ~sq_cache.none =>
        \A i, j \in DOMAIN sq_gen : SameKeyTwice(i, j) => ~ImageUsable(sq_gen[i].image)

C3_Witness ==
    /\ sq_n = 2
    /\ sq_last.made /\ sq_last.hit
    /\ Len(sq_gen) = 1
    /\ sq_gen[1].key = cache_key_of(sq_last.video_command)
    /\ ImageUsable(sq_gen[1].image)

SpeechFailed == sq_last.made /\ sq_last.tts = None

SilentOfClipDuration(cmd) ==
    /\ cmd.ran
    /\ cmd.audio[1] = "silent_audio"
    /\ cmd.audio[3] = cmd.t
    /\ cmd.t = segment_duration_of(sq_last.video_command, sq_last.default_duration)

\* C7 as stated: when the speech generator returns None the builder returns a
\* clip path, muxed with silence of the clip's duration, and does not raise.
C7_SilentNeverRaises ==
    SpeechFailed =>
        /\ ~sq_last.result.raised
        /\ SilentOfClipDuration(sq_last.cmd)

\* C7 amended: when the speech generator returns None and the media tooling
\* works (ffmpeg synthesizes the silence and muxes, and PIL draws the
\* fallback image if one is needed), the builder returns a clip path muxed
\* with silence of the clip's duration; when ffmpeg ran, the audio it was
\* given is that silence; and when a tool fails the builder raises.
C7_SilentWhenToolsWork ==
    SpeechFailed =>
        /\ (sq_last.tools_ok.silent /\ sq_last.tools_ok.mux
              /\ (sq_last.tools_ok.pil \/ ImageUsable(sq_last.raw_image)))
           => /\ ~sq_last.result.raised
              /\ sq_last.result.value[1] = "video_segment"
              /\ SilentOfClipDuration(sq_last.cmd)
        /\ sq_last.cmd.ran => SilentOfClipDuration(sq_last.cmd)
        /\ ~sq_last.tools_ok.silent \/ ~sq_last.tools_ok.mux => sq_last.result.raised

C7_Witness ==
    /\ SpeechFailed
    /\ sq_last.video_command.narration # EmptyText
    /\ ~sq_last.result.raised
    /\ sq_last.cmd.audio[3] = 5
    /\ sq_last.default_duration = 3

RawDuration(video_command) ==
    (IF "end" \in DOMAIN video_command THEN video_command.end ELSE 0)
        - (IF "start" \in DOMAIN video_command THEN video_command.start ELSE 0)

Named(call) == call.key[1] # EmptyText

\* C1: within one run generate_character_image is invoked at most once for
\* each (character_name, seed), counting the invocations of the segment
\* builders and of the character-image stage alike.
C1_ImageOncePerRun ==
    \A c1, c2 \in image_calls :
        Named(c1) /\ c1.key = c2.key => c1.by = c2.by

WorkerMissed(i) ==
    /\ workers[i].at = "generate"
    /\ char_name_in(parsed.value.video[i]) # EmptyText

\* C2: the check-then-populate of the shared face cache is atomic per key:
\* never have two workers both found the same (name, seed) absent, each
\* about to invoke the image generator for it.
C2_CheckThenPopulateAtomic ==
    pc = "video" =>
        \A i, j \in DOMAIN workers :
            (i # j /\ WorkerMissed(i) /\ WorkerMissed(j))
                => cache_key_of(parsed.value.video[i]) # cache_key_of(parsed.value.video[j])

HasNone(paths) == \E k \in 1..Len(paths) : paths[k] = None

\* C4: a None returned by the speech or the background-audio generator does
\* not make assembly fail: if every video clip was produced and every tool
\* run on existing files succeeds, the run ends with a final video path.
C4_MissingAudioStillAssembles ==
    (/\ pc = "done"
     /\ Len(assembled) = 1
     /\ assembled[1].tools_ok
     /\ ~HasNone(assembled[1].video_segments)
     /\ HasNone(assembled[1].tts_audios) \/ HasNone(assembled[1].background_audios))
        => result.value[7] = FinalVideo

Complete(results, n) == Len(results) = n /\ AllDone(results)

\* C5: a run whose expanded script parses reaches assembly: the assembler is
\* invoked exactly once, after all four generation stages have finished and
\* with their lists, however many generator calls failed or raised; and
\* until then the run can always take a step.
C5_AssemblyReachedOnce ==
    /\ Len(assembled) <= 1
    /\ Len(assembled) = 1 =>
          /\ parsed.state = "ok"
          /\ Complete(assembled[1].video_segments, N)
          /\ Complete(assembled[1].tts_audios, N)
          /\ Complete(assembled[1].background_audios, N)
          /\ Complete(assembled[1].character_images, Len(parsed.value.image))
          /\ assembled[1].video_segments = video_segments
          /\ \A i \in DOMAIN workers : workers[i].at = "done"
    /\ (pc = "done" /\ parsed.state = "ok") => Len(assembled) = 1
    /\ (pc # "done" /\ parsed.state = "ok") => ENABLED PlNext

C5_Witness ==
    /\ pc = "done"
    /\ Len(assembled) = 1
    /\ N = 2
    /\ \A k \in 1..N : video_segments[k] = None
    /\ faults = 2

IsError(field) ==
    field[1] \in {"Error: Please provide a script",
                  "Error: Please provide a valid Gemini API key",
                  "Error: Failed to get response from Gemini API",
                  "Error: Gemini API call failed",
                  "Error: Script parsing failed"}

BeforeColon(desc) == split_colon_0(desc)

ShareNameBeforeColon(d1, d2) ==
    HasColon(d1) /\ HasColon(d2) /\ BeforeColon(d1) = BeforeColon(d2)

SameIdentity(f1, f2) == f1.name = f2.name /\ f1.seed = f2.seed

ResolvedIn(ps) == IF ps.made THEN ps.identities ELSE {}

\* C10: identity resolution is deterministic: the same description parsed in
\* two independent parses yields the same name and the same seed, and two
\* descriptions that share the name before the colon yield the same name and
\* the same seed, whatever the order of the segments.
C10_IdentityDeterministic ==
    \A f1, f2 \in ResolvedIn(ps_first) \cup ResolvedIn(ps_second) :
        (f1.desc = f2.desc \/ ShareNameBeforeColon(f1.desc, f2.desc))
            => SameIdentity(f1, f2)

C10_Witness ==
    /\ ps_first.made /\ ps_second.made
    /\ ps_first.script = <<Described(<<"A", ":", "x">>), Described(<<"A", ":", "y">>)>>
    /\ ps_second.script = <<Described(<<"A", ":", "y">>), Described(<<"A", ":", "x">>)>>
    /\ \E f1 \in ps_first.identities, f2 \in ps_second.identities :
          /\ f1.desc = <<"A", ":", "x">>
          /\ f2.desc = <<"A", ":", "y">>
          /\ SameIdentity(f1, f2)

\* the widths of the scaled digest and of the scaled seed, in bits
DigestBits == 16
SeedBits == 8

Bit(n, k) == (n \div 2^k) % 2

Resolved == ResolvedIn(ps_first) \cup ResolvedIn(ps_second)

\* C11, as stated: the seed of a character is the first (most significant)
\* bits of SHA-256(name), an integer in [0, 2^32).
C11_SeedIsFirstBits ==
    \A f \in Resolved :
        /\ f.seed \in 0..(SeedModulus - 1)
        /\ \A k \in 0..(SeedBits - 1) :
              Bit(f.seed, k) = Bit(sha256_int(f.name), k + DigestBits - SeedBits)

\* C11, amended: the seed of a character is SHA-256(name) read as an unsigned
\* integer and reduced modulo 2^32, that is the last (least significant) bits
\* of the digest, an integer in [0, 2^32).
C11_SeedIsLastBits ==
    \A f \in Resolved :
        /\ f.seed \in 0..(SeedModulus - 1)
        /\ \A k \in 0..(SeedBits - 1) : Bit(f.seed, k) = Bit(sha256_int(f.name), k)

C11_Witness ==
    /\ ps_first.made
    /\ \E f \in ps_first.identities :
          /\ f.name = <<"A">>
          /\ sha256_int(f.name) >= SeedModulus
          /\ f.seed # sha256_int(f.name) \div (DigestModulus \div SeedModulus)

Parses == {ps \in {ps_first, ps_second} : ps.made /\ ~ps.raised}

Faced(video) == {k \in 1..Len(video) : "character_face" \in DOMAIN video[k]}

NameAt(video, k) == char_name_of(video[k].image)

FirstWithName(video, k) ==
    CHOOSE i \in Faced(video) :
        /\ NameAt(video, i) = NameAt(video, k)
        /\ \A j \in Faced(video) : NameAt(video, j) = NameAt(video, k) => i <= j

\* C12: within one parse, all segments whose image description yields the
\* same name carry one character identity, with the same seed and the prompt
\* of the first occurrence, and the image-command list holds exactly one
\* entry per distinct name.
C12_OneIdentityPerName ==
    \A ps \in Parses :
        LET video == ps.result.value.video
            image == ps.result.value.image
        IN /\ \A i, j \in Faced(video) :
                 NameAt(video, i) = NameAt(video, j)
                     => video[i].character_face = video[j].character_face
           /\ \A k \in Faced(video) :
                 /\ video[k].character_face.character = NameAt(video, k)
                 /\ video[k].character_face.face_prompt
                        = video[FirstWithName(video, k)].image
           /\ \A a, b \in 1..Len(image) :
                 image[a].character = image[b].character => a = b
           /\ {image[a].character : a \in 1..Len(image)}
                 = {NameAt(video, k) : k \in Faced(video)}
           /\ \A a \in 1..Len(image) :
                 \E k \in Faced(video) : video[k].character_face = image[a]

C12_Witness ==
    /\ ps_first.made /\ ~ps_first.raised
    /\ ps_first.script = <<Described(<<"A", ":", "x">>), Described(<<"A", ":", "y">>)>>
    /\ ps_first.result.value.video[2].character_face.face_prompt = <<"A", ":", "x">>
    /\ Len(ps_first.result.value.image) = 1

(***************************************************************************)
(* Claims about validate_segment, under SpecValidate.                      *)
(***************************************************************************)
TimingError == Raised(<<"End time must be greater than start time">>)

HasTimes(seg) == {"start", "end", "narration"} \subseteq DOMAIN seg

\* C13: validate_segment raises the timing error if and only if end <= start,
\* compared numerically, for every segment that has start, end and narration;
\* a segment with end > start passes.
C13_TimingErrorIffEndNotAfterStart ==
    (vs_result.made /\ HasTimes(vs_seg.seg)) =>
        /\ (vs_result.result = TimingError) <=> (vs_seg.seg.end <= vs_seg.seg.start)
        /\ vs_seg.seg.end > vs_seg.seg.start => ~vs_result.result.raised

(***************************************************************************)
(* More claims about one run of generate_video_async, under Spec.          *)
(***************************************************************************)
WellFormed(seg) == HasTimes(seg) /\ seg.end > seg.start

Started(results) == \E k \in 1..Len(results) : results[k] # Pending

GenerationStarted ==
    \/ image_calls # {}
    \/ \E i \in DOMAIN workers : workers[i].at # "check"
    \/ Started(video_segments) \/ Started(tts_audios)
    \/ Started(background_audios) \/ Started(character_images)
    \/ assembled # <<>>

Expanded == detailed_script.state = "text" /\ detailed_script.text.form = "list"

\* C14: no speech, image, background-audio or video-segment generation is
\* started before the segments have passed validate_segment; if any segment
\* of the expanded script lacks a required field or has end <= start, the run
\* fails with zero generation calls.
C14_ValidatedBeforeGeneration ==
    /\ GenerationStarted =>
          /\ parsed.state = "ok"
          /\ \A k \in 1..Len(detailed_script.text.body) :
                WellFormed(detailed_script.text.body[k])
    /\ (/\ pc = "done"
        /\ Expanded
        /\ \E k \in 1..Len(detailed_script.text.body) :
              ~WellFormed(detailed_script.text.body[k]))
          => /\ IsError(result.value[2])
             /\ result.value[7] = None
             /\ ~GenerationStarted

C14_Witness ==
    /\ pc = "done"
    /\ Expanded
    /\ detailed_script.text.body = <<SegAx, SegNoNarration>>
    /\ IsError(result.value[2])
    /\ ~GenerationStarted

(***************************************************************************)
(* Claims about assemble_video, under SpecAssemble.  The log of a call     *)
(* lists the tool runs it made, each with the manifest it wrote for it.    *)
(***************************************************************************)
\* C15: assemble_video called with an empty clip list returns the sentinel
\* 'no_video_segments.mp4' without raising, without running any tool and
\* without writing any file, whatever the other lists contain.
C15_EmptyClipListGivesSentinel ==
    (av_result.made /\ av_call.video_segments = <<>>) =>
        /\ av_result.value = NoVideoSegments
        /\ av_result.log = <<>>

C15_Witness ==
    /\ av_result.made
    /\ av_call.video_segments = <<>>
    /\ av_call.tts_audios = <<Speech1, Speech2>>
    /\ av_call.character_images = <<None>>
    /\ av_result.value = NoVideoSegments

RunsOf(log, tool) == {k \in 1..Len(log) : log[k].tool = tool}

\* what the file `name` holds when the audio manifest is read: the last mix
\* written to it
LastMixTo(log, name) ==
    log[CHOOSE k \in RunsOf(log, "mix") :
            /\ log[k].out = name
            /\ \A j \in RunsOf(log, "mix") : log[j].out = name => j <= k]

Mixing == av_call.tts_audios # <<>> /\ av_call.background_audios # <<>>

\* C16: assemble_video preserves list order: the i-th entry of the video
\* manifest is the i-th input clip, and the i-th entry of the audio manifest is
\* the i-th narration track, mixed with the i-th background track when
\* backgrounds are present.
C16_ManifestsKeepListOrder ==
    av_result.made =>
        /\ \A c \in RunsOf(av_result.log, "concat_video") :
              av_result.log[c].manifest = av_call.video_segments
        /\ \A c \in RunsOf(av_result.log, "concat_audio") :
              \A i \in 1..Len(av_result.log[c].manifest) :
                  IF Mixing
                  THEN /\ LastMixTo(av_result.log, av_result.log[c].manifest[i]).tts
                             = av_call.tts_audios[i]
                       /\ LastMixTo(av_result.log, av_result.log[c].manifest[i]).bg
                             = av_call.background_audios[i]
                  ELSE av_result.log[c].manifest[i] = av_call.tts_audios[i]

InputsExist ==
    /\ AllExist(av_call.video_segments) /\ AllExist(av_call.tts_audios)
    /\ AllExist(av_call.background_audios) /\ AllExist(av_call.character_images)

ExpectedOutput == IF av_call.output_path = None THEN FinalVideo ELSE av_call.output_path

\* C17: when every media-tool invocation succeeds, assemble_video returns the
\* output path (the caller's, or final_video.mp4 under the output root) for
\* every combination of empty and non-empty narration, background and
\* character-image lists, narration and character images together included.
C17_ReturnsOutputPathWhenToolsSucceed ==
    (/\ av_result.made
     /\ av_call.video_segments # <<>>
     /\ AllToolsOk(av_call.tools)
     /\ InputsExist)
        => av_result.value = ExpectedOutput

StepFailed(run) ==
    CASE run.tool = "concat_video" ->
             ~(av_call.tools.concat_ok /\ AllExist(run.manifest))
      [] run.tool = "mix" ->
             ~(av_call.tools.mix_ok /\ Exists(run.tts) /\ Exists(run.bg))
      [] run.tool = "concat_audio" ->
             ~(av_call.tools.concat_audio_ok /\ (Mixing \/ AllExist(run.manifest)))
      [] run.tool = "mux" -> ~av_call.tools.mux_ok
      [] OTHER -> FALSE

\* C18: a failure of any concatenation, mixing or muxing step inside
\* assemble_video is reported as None: the failed run is the last one made
\* (nothing is retried, nothing follows it) and nothing is raised.
C18_StepFailureGivesNone ==
    av_result.made =>
        \A k \in 1..Len(av_result.log) :
            StepFailed(av_result.log[k]) =>
                /\ av_result.value = None
                /\ k = Len(av_result.log)

C18_Witness ==
    /\ av_result.made
    /\ av_call.tts_audios = <<Speech1, Speech2>>
    /\ av_call.background_audios = <<Music1, Music2>>
    /\ ~av_call.tools.mix_ok
    /\ av_result.value = None
    /\ Len(av_result.log) = 2
    /\ av_result.log[2].tool = "mix"

PreOverlayWritten ==
    \E k \in 1..Len(av_result.log) :
        \/ av_result.log[k].tool = "mux" /\ av_call.tools.mux_ok
        \/ av_result.log[k].tool = "copy" /\ av_call.tools.copy_ok

OverlayDone ==
    /\ av_result.log # <<>>
    /\ av_result.log[Len(av_result.log)].tool = "copy_overlay"
    /\ av_call.tools.copy_ok

OverlayFailed ==
    /\ av_call.character_images # <<>>
    /\ PreOverlayWritten
    /\ ~OverlayDone

\* C19: if the character-overlay step of assemble_video fails, for any kind
\* of failure, the pre-overlay output is kept and assemble_video still
\* returns the output path.
C19_OverlayFailureKeepsOutput ==
    (av_result.made /\ OverlayFailed) => av_result.value = ExpectedOutput

WhitespaceOnly(text) == \A i \in 1..Len(text) : text[i] \in Whitespace

NothingCalled ==
    /\ detailed_script = [state |-> "none"]
    /\ parsed = [state |-> "none"]
    /\ face_cache = NoCache
    /\ workers = <<>>
    /\ video_segments = <<>> /\ tts_audios = <<>>
    /\ background_audios = <<>> /\ character_images = <<>>
    /\ image_calls = {}
    /\ assembled = <<>>

\* C20: if the script text or the credential is empty or whitespace-only,
\* generate_video_async returns a failure result with a descriptive message
\* and calls neither the expansion collaborator, the parser, a generator nor
\* the assembler.
C20_BlankInputFailsBeforeAnyCall ==
    (pl_call.made /\ (WhitespaceOnly(pl_call.script) \/ WhitespaceOnly(pl_call.gemini_api_key))) =>
        /\ pc = "done"
        /\ result \in {on_empty_script, on_empty_key}
        /\ NothingCalled

C20_Witness ==
    /\ pl_call.made
    /\ pl_call.script = <<"x">>
    /\ pl_call.gemini_api_key = <<" ">>
    /\ result = on_empty_key

(***************************************************************************)
(* models/audio.py in detail: a description is a sequence of words and     *)
(* blanks; a clip is its path, what it holds and how long it lasts.        *)
(***************************************************************************)
DefaultDuration == 5
FallbackDuration == 5

SilenceWords == {"silence", "quiet"}
MusicWords == {"music", "melody", "song", "tune"}
NumberWords == {"3", "10"}
UnitWords == {"sec", "second", "s"}

\* str.lower() on one word
lower(word) ==
    CASE word = "Music" -> "music"
      [] word = "Quiet" -> "quiet"
      [] OTHER -> word

\* float(duration_match.group(1))
number_of(word) ==
    CASE word = "3" -> 3
      [] word = "10" -> 10
      [] OTHER -> 0

HasWord(text, words) == \E i \in 1..Len(text) : lower(text[i]) \in words

\* re.search(r'(\d+(?:\.\d+)?)\s*(?:sec|second|s)'): a number, blanks or
\* none, then a unit; positions of the numbers that match
RECURSIVE unit_follows(_, _)
unit_follows(text, i) ==
    IF i > Len(text) THEN FALSE
    ELSE IF text[i] \in Whitespace THEN unit_follows(text, i + 1)
    ELSE lower(text[i]) \in UnitWords

duration_matches(text) ==
    {i \in 1..Len(text) : text[i] \in NumberWords /\ unit_follows(text, i + 1)}

first_match(S) == CHOOSE x \in S : \A y \in S : x <= y

\* lines 81-118, without the frequency pattern
analyze_audio_command(audio_command) ==
    [audio_type |-> IF HasWord(audio_command, SilenceWords) THEN "silence"
                    ELSE IF HasWord(audio_command, MusicWords) THEN "music"
                    ELSE "ambient",
     duration |-> IF duration_matches(audio_command) = {} THEN DefaultDuration
                  ELSE number_of(audio_command[first_match(duration_matches(audio_command))])]

Clip(path, kind, duration) == <<"clip", path, kind, duration>>

\* lines 120-133: returns the silent clip or raises
generate_silence(output_path, duration, ok) ==
    IF ok THEN Returned(Clip(output_path, "silence", duration))
    ELSE Raised(<<"CalledProcessError">>)

\* lines 135-173: the ambient clip, or on any failure the silence
generate_ambient_audio(output_path, duration, env) ==
    IF env.ambient_ok THEN Returned(Clip(output_path, "ambient", duration))
    ELSE generate_silence(output_path, duration, env.silence_ok)

\* lines 175-206: the music clip, or on any failure the ambient one
generate_music_audio(output_path, duration, env) ==
    IF env.music_ok THEN Returned(Clip(output_path, "music", duration))
    ELSE generate_ambient_audio(output_path, duration, env)

BackgroundPath == <<"background_audio.wav">>

\* lines 51-70: the body of the try
background_audio_attempt(audio_command, env) ==
    IF ~env.setup_ok THEN Raised(<<"OSError">>)
    ELSE LET a == analyze_audio_command(audio_command)
         IN  IF a.audio_type = "silence"
             THEN generate_silence(BackgroundPath, a.duration, env.silence_ok)
             ELSE IF a.audio_type = "music"
             THEN generate_music_audio(BackgroundPath, a.duration, env)
             ELSE generate_ambient_audio(BackgroundPath, a.duration, env)

background_audio_requested(audio_command, env) ==
    LET command == IF Blank(audio_command) THEN <<"silence">> ELSE audio_command
        attempt == background_audio_attempt(command, env)
    IN  IF ~attempt.raised THEN attempt
        ELSE generate_silence(SilenceFallback, analyze_audio_command(command).duration, env.fallback_ok)

\* lines 45-79 of generate_background_audio, with every ffmpeg run's outcome
\* given by env: what the call returns or raises
background_audio(audio_command, env) ==
    LET command == IF Blank(audio_command) THEN <<"silence">> ELSE audio_command
        attempt == background_audio_attempt(command, env)
    IN  IF ~attempt.raised THEN attempt
        ELSE Returned(safe_call(generate_silence(SilenceFallback, FallbackDuration, env.fallback_ok)))

AudioCommands ==
    {<<>>, <<" ">>, <<"forest">>, <<"Music">>, <<"Quiet">>,
     <<"forest", " ", "10", "sec">>, <<"music", " ", "10", " ", "s">>,
     <<"silence", " ", "3", "second">>, <<"10", " ", "forest", " ", "3", "s">>}

AudioEnvs ==
    {env \in [setup_ok : BOOLEAN, music_ok : BOOLEAN, ambient_ok : BOOLEAN,
              silence_ok : BOOLEAN, fallback_ok : BOOLEAN] :
        Cardinality({f \in DOMAIN env : ~env[f]}) <= MaxFaults}

BgInit ==
    /\ bg_call \in [made : {TRUE}, audio_command : AudioCommands, env : AudioEnvs]
    /\ bg_result = NoCall
    /\ VsIdle /\ AvIdle /\ CaIdle /\ IpIdle /\ PsIdle /\ SqIdle /\ PlFresh("off")

BgGenerate ==
    /\ bg_call.made
    /\ ~bg_result.made
    /\ bg_result' = [made |-> TRUE, outcome |-> background_audio(bg_call.audio_command, bg_call.env)]
    /\ UNCHANGED <<bg_call, vsVars, avVars, ipVars, psVars, sqVars, plVars, caVars>>

BgNext == BgGenerate

SpecBackground == BgInit /\ [][BgNext]_vars

(***************************************************************************)
(* video_assembler.py: the assemblies of two pipeline runs, each in a      *)
(* worker thread of the executor (main.py:181-183), every tool succeeding. *)
(* ca_fs[f] is the run that last wrote the file f, ca_reads[r] the files   *)
(* run r has read with the run that had written them.                      *)
(***************************************************************************)
CaInit ==
    /\ ca_in \in [Runs -> BOOLEAN]
    /\ ca_pc = [r \in Runs |-> "segments"]
    /\ ca_fs = [f \in TempFiles |-> NoRun]
    /\ ca_reads = [r \in Runs |-> {}]
    /\ VsIdle /\ AvIdle /\ BgIdle /\ IpIdle /\ PsIdle /\ SqIdle /\ PlFresh("off")

CaOthers == UNCHANGED <<vsVars, avVars, bgVars, ipVars, psVars, sqVars, plVars>>

\* a step of run r: it reads the files in from, writes the files in to and
\* goes on at next
CaStep(r, from, to, next) ==
    /\ ca_reads' = [ca_reads EXCEPT ![r] = @ \cup {<<f, ca_fs[f]>> : f \in from}]
    /\ ca_fs' = [f \in TempFiles |-> IF f \in to THEN r ELSE ca_fs[f]]
    /\ ca_pc' = [ca_pc EXCEPT ![r] = next]
    /\ UNCHANGED ca_in
    /\ CaOthers

\* lines 17-20: the video manifest is written
CaWriteSegments(r) ==
    /\ ca_pc[r] = "segments"
    /\ CaStep(r, {}, {"segments.txt"}, "concat")

\* lines 21-25: ffmpeg concatenates what the manifest lists
CaConcat(r) ==
    /\ ca_pc[r] = "concat"
    /\ CaStep(r, {"segments.txt"}, {"temp_video.mp4"}, IF ca_in[r] THEN "audios" ELSE "copy")

\* lines 47-50: the audio manifest is written (ca_in[r]: the run has narration)
CaWriteAudios(r) ==
    /\ ca_pc[r] = "audios"
    /\ CaStep(r, {}, {"audios.txt"}, "concat_audio")

\* lines 51-55: ffmpeg concatenates the audio tracks
CaConcatAudio(r) ==
    /\ ca_pc[r] = "concat_audio"
    /\ CaStep(r, {"audios.txt"}, {"final_audio.wav"}, "mux")

\* lines 60-66: the concatenated video and the audio track are muxed
CaMux(r) ==
    /\ ca_pc[r] = "mux"
    /\ CaStep(r, {"temp_video.mp4", "final_audio.wav"}, {}, "done")

\* lines 68-72: without audio the concatenated video is copied
CaCopy(r) ==
    /\ ca_pc[r] = "copy"
    /\ CaStep(r, {"temp_video.mp4"}, {}, "done")

CaNext ==
    \/ \E r \in Runs : CaWriteSegments(r)
    \/ \E r \in Runs : CaConcat(r)
    \/ \E r \in Runs : CaWriteAudios(r)
    \/ \E r \in Runs : CaConcatAudio(r)
    \/ \E r \in Runs : CaMux(r)
    \/ \E r \in Runs : CaCopy(r)

SpecConcurrentAssemble == CaInit /\ [][CaNext]_vars

(***************************************************************************)
(* image.py: get_image_pipeline called by concurrent threads.              *)
(***************************************************************************)
\* StableDiffusionPipeline.from_pretrained(...) returns a new object; .to()
\* moves it to the device
loaded_pipeline(n) == <<"pipeline", n, "loaded">>
on_device(pipeline) == <<"pipeline", pipeline[2], "on_device">>

can_acquire_always(lock) == TRUE

\* threading.Lock: acquired only while nobody holds it
can_acquire(lock) == lock = Unlocked

IpInit ==
    /\ IpFresh
    /\ ip_pc = [t \in Callers |-> "idle"]
    /\ VsIdle /\ AvIdle /\ CaIdle /\ BgIdle /\ PsIdle /\ SqIdle /\ PlFresh("off")

IpOthers == UNCHANGED <<vsVars, avVars, psVars, sqVars, plVars, bgVars, caVars>>

\* line 18: a thread calls get_image_pipeline
IpCall(t) ==
    /\ ip_pc[t] = "idle"
    /\ ip_calls[t] < MaxCalls
    /\ ip_calls' = [ip_calls EXCEPT ![t] = @ + 1]
    /\ ip_pc' = [ip_pc EXCEPT ![t] = "acquire"]
    /\ UNCHANGED <<image_pipeline, image_pipeline_lock, ip_returned, ip_loads, ip_faults>>
    /\ IpOthers

\* lines 20-21: with _image_pipeline_lock: if _image_pipeline is None
IpAcquire(t) ==
    /\ ip_pc[t] = "acquire"
    /\ can_acquire(image_pipeline_lock)
    /\ image_pipeline_lock' = t
    /\ ip_pc' = [ip_pc EXCEPT ![t] = IF image_pipeline = None THEN "load" ELSE "return"]
    /\ UNCHANGED <<image_pipeline, ip_calls, ip_returned, ip_loads, ip_faults>>
    /\ IpOthers

\* lines 22-41: the imports, the authentication set-up and from_pretrained
IpLoad(t, ok) ==
    /\ ip_pc[t] = "load"
    /\ ok \/ ip_faults < MaxFaults
    /\ IF ok
       THEN /\ image_pipeline' = loaded_pipeline(ip_loads + 1)
            /\ ip_loads' = ip_loads + 1
            /\ ip_pc' = [ip_pc EXCEPT ![t] = "to"]
            /\ UNCHANGED ip_faults
       ELSE /\ ip_faults' = ip_faults + 1
            /\ ip_pc' = [ip_pc EXCEPT ![t] = "raise"]
            /\ UNCHANGED <<image_pipeline, ip_loads>>
    /\ UNCHANGED <<image_pipeline_lock, ip_calls, ip_returned>>
    /\ IpOthers

\* line 42: _image_pipeline = _image_pipeline.to(device)
IpTo(t, ok) ==
    /\ ip_pc[t] = "to"
    /\ ok \/ ip_faults < MaxFaults
    /\ IF ok
       THEN /\ image_pipeline' = on_device(image_pipeline)
            /\ ip_pc' = [ip_pc EXCEPT ![t] = "return"]
            /\ UNCHANGED ip_faults
       ELSE /\ ip_faults' = ip_faults + 1
            /\ ip_pc' = [ip_pc EXCEPT ![t] = "raise"]
            /\ UNCHANGED image_pipeline
    /\ UNCHANGED <<image_pipeline_lock, ip_calls, ip_returned, ip_loads>>
    /\ IpOthers

\* lines 45-57: the handler logs and re-raises; leaving the with block
\* releases the lock
IpRaise(t) ==
    /\ ip_pc[t] = "raise"
    /\ image_pipeline_lock' = Unlocked
    /\ ip_pc' = [ip_pc EXCEPT ![t] = "idle"]
    /\ UNCHANGED <<image_pipeline, ip_calls, ip_returned, ip_loads, ip_faults>>
    /\ IpOthers

\* line 58: return _image_pipeline, inside the with block
IpReturn(t) ==
    /\ ip_pc[t] = "return"
    /\ ip_returned' = ip_returned \cup {image_pipeline}
    /\ image_pipeline_lock' = Unlocked
    /\ ip_pc' = [ip_pc EXCEPT ![t] = "idle"]
    /\ UNCHANGED <<image_pipeline, ip_calls, ip_loads, ip_faults>>
    /\ IpOthers

IpNext ==
    \/ \E t \in Callers : IpCall(t)
    \/ \E t \in Callers : IpAcquire(t)
    \/ \E t \in Callers, ok \in BOOLEAN : IpLoad(t, ok)
    \/ \E t \in Callers, ok \in BOOLEAN : IpTo(t, ok)
    \/ \E t \in Callers : IpRaise(t)
    \/ \E t \in Callers : IpReturn(t)

SpecImagePipeline == IpInit /\ [][IpNext]_vars

C22_LoadedOnceSameHandle ==
    /\ ip_loads <= 1
    /\ Cardinality(ip_returned) <= 1
    /\ ip_returned # {} => ip_loads = 1
    /\ \A t \in Callers : ip_pc[t] = "load" => image_pipeline = None

C22_Witness ==
    /\ \A t \in Callers : ip_calls[t] = 1 /\ ip_pc[t] = "idle"
    /\ ip_faults = 0
    /\ ip_loads = 1
    /\ ip_returned = {on_device(loaded_pipeline(1))}

\* C30: if get_image_pipeline raises while initializing (the load or the
\* device transfer fails) the process-wide handle is left uninitialized, so
\* a later call loads again and no caller is handed a partially initialized
\* pipeline.
C30_FailedInitLeavesNoHandle ==
    /\ \A t \in Callers : ip_pc[t] = "raise" => image_pipeline = None
    /\ \A h \in ip_returned : h[3] = "on_device"

(***************************************************************************)
(* Claims about generate_background_audio, under SpecBackground.           *)
(***************************************************************************)
Requested == analyze_audio_command(IF Blank(bg_call.audio_command) THEN <<"silence">> ELSE bg_call.audio_command)

SynthesisFailed ==
    \/ ~bg_call.env.setup_ok
    \/ Requested.audio_type = "music" /\ ~bg_call.env.music_ok
    \/ Requested.audio_type = "ambient" /\ ~bg_call.env.ambient_ok
    \/ Requested.audio_type = "silence" /\ ~bg_call.env.silence_ok

IsSilentClip(clip, duration) == clip # None /\ clip[3] = "silence" /\ clip[4] = duration

C24_RunsReadOnlyTheirOwnFiles ==
    \A r \in Runs : \A read \in ca_reads[r] : read[2] = r

(***************************************************************************)
(* Claims about the face cache of generate_video_segment, under            *)
(* SpecSegment.                                                            *)
(***************************************************************************)
C25_NoFailedEntry ==
    \A e \in sq_cache.map :
        e.path # None /\ e.path # EmptyText /\ e.path # Placeholder

\* one call on a segment that carries a character, with a cache
C25_Step ==
    (sq_n' = sq_n + 1 /\ UsesCache(sq_last'.video_command, sq_cache)) =>
        LET key == cache_key_of(sq_last'.video_command)
        IN  IF cache_has(sq_cache, key)
            THEN /\ sq_cache' = sq_cache
                 /\ sq_gen' = sq_gen
                 /\ sq_last'.raw_image = cache_get(sq_cache, key)
                 /\ sq_last'.cmd.ran => sq_last'.cmd.image = cache_get(sq_cache, key)
            ELSE /\ Len(sq_gen') = Len(sq_gen) + 1
                 /\ sq_gen'[Len(sq_gen')].key = key
                 /\ LET image == sq_gen'[Len(sq_gen')].image
                    IN  IF image # None /\ image # EmptyText /\ image # Placeholder
                        THEN sq_cache'.map = sq_cache.map \cup {[key |-> key, path |-> image]}
                        ELSE sq_cache' = sq_cache

\* C25: on a cache miss for a segment that carries a character,
\* generate_video_segment stores the generated image under (name, seed) if
\* and only if generation succeeded (the result is neither missing nor the
\* placeholder), so no cache entry ever holds the placeholder or None; on a
\* cache hit the cached path is used, the image generator is not called and
\* the cache is left unchanged.
C25_CacheFilledOnSuccessOnly == []C25_NoFailedEntry /\ [][C25_Step]_vars

C25_Witness ==
    /\ sq_n = 2
    /\ sq_last.made /\ ~sq_last.hit
    /\ UsesCache(sq_last.video_command, sq_cache)
    /\ sq_last.raw_image = Placeholder
    /\ Len(sq_gen) = 2 /\ sq_gen[2].image = Placeholder
    /\ Cardinality(sq_cache.map) = 1
    /\ ~cache_has(sq_cache, cache_key_of(sq_last.video_command))

(***************************************************************************)
(* Claims about the order of the generated lists, under Spec.              *)
(***************************************************************************)
\* the results the task for segment i can return
VideoResultsFor(i) == {None, <<"video_segment", <<"video", i>>>>}
TtsResultsFor(i) == {None, <<"tts_audio", <<"tts", i>>>>}
BackgroundResultsFor(i) == {None, SilenceFallback, <<"background_audio", <<"background", i>>>>}

InSegmentOrder(call) ==
    /\ Len(call.video_segments) = N
    /\ Len(call.tts_audios) = N
    /\ Len(call.background_audios) = N
    /\ \A i \in 1..N :
          /\ call.video_segments[i] \in VideoResultsFor(i)
          /\ call.tts_audios[i] \in TtsResultsFor(i)
          /\ call.background_audios[i] \in BackgroundResultsFor(i)
          /\ parsed.value.tts[i] = Get(detailed_script.text.body[i], "narration", EmptyText)
          /\ parsed.value.audio[i] = Get(detailed_script.text.body[i], "audio", EmptyText)

\* C26: after the concurrent generation stage each per-segment list is in
\* segment order: element i of video_segments, tts_audios and
\* background_audios is the result for parsed segment i, whatever order the
\* workers completed in, and these lists are the ones handed to the
\* assembler.
C26_ListsInSegmentOrder ==
    /\ pc = "assemble" =>
          InSegmentOrder([video_segments |-> video_segments, tts_audios |-> tts_audios,
                          background_audios |-> background_audios])
    /\ \A k \in 1..Len(assembled) :
          /\ InSegmentOrder(assembled[k])
          /\ assembled[k].video_segments = video_segments
          /\ assembled[k].tts_audios = tts_audios
          /\ assembled[k].background_audios = background_audios

C26_Witness ==
    /\ pc = "done"
    /\ Len(assembled) = 1
    /\ N = 2
    /\ assembled[1].video_segments = <<<<"video_segment", <<"video", 1>>>>, <<"video_segment", <<"video", 2>>>>>>
    /\ assembled[1].tts_audios = <<<<"tts_audio", <<"tts", 1>>>>, None>>
    /\ assembled[1].background_audios[2] = <<"background_audio", <<"background", 2>>>>

(***************************************************************************)
(* Claims about the audio branch of assemble_video, under SpecAssemble.    *)
(***************************************************************************)
\* the tool runs of the call, in order, restricted to the tools in `tools`
RECURSIVE RunsAmong(_, _)
RunsAmong(log, tools) ==
    IF log = <<>> THEN <<>>
    ELSE IF log[1].tool \in tools
    THEN <<log[1]>> \o RunsAmong(Tail(log), tools)
    ELSE RunsAmong(Tail(log), tools)

Succeeded == av_result.made /\ av_result.value = ExpectedOutput

\* C27: assemble_video chooses the audio path by what is available: with
\* narration and background lists both non-empty it mixes them pairwise and
\* concatenates the mixes into the final audio track; with narration only it
\* concatenates the narration tracks directly; with neither there is no
\* audio track and the final video is the concatenated video as it is.
C27_AudioPathByAvailability ==
    (av_result.made /\ av_call.video_segments # <<>>) =>
        LET log == av_result.log
            mixes == RunsAmong(log, {"mix"})
            concats == RunsAmong(log, {"concat_audio"})
            muxes == RunsAmong(log, {"mux"})
            copies == RunsAmong(log, {"copy"})
            tts == av_call.tts_audios
            bg == av_call.background_audios
        IN  /\ Len(concats) <= 1 /\ Len(muxes) <= 1 /\ Len(copies) <= 1
            /\ (tts # <<>> /\ bg # <<>>) =>
                  /\ \A k \in 1..Len(mixes) : mixes[k].tts = tts[k] /\ mixes[k].bg = bg[k]
                  /\ \A c \in 1..Len(concats) :
                        /\ Len(concats[c].manifest) = Len(mixes)
                        /\ \A k \in 1..Len(mixes) : concats[c].manifest[k] = mixes[k].out
                  /\ copies = <<>>
                  /\ Succeeded =>
                        /\ Len(mixes) = Min(Len(tts), Len(bg))
                        /\ Len(concats) = 1
                        /\ Len(muxes) = 1 /\ muxes[1].audio = FinalAudio
            /\ (tts # <<>> /\ bg = <<>>) =>
                  /\ mixes = <<>>
                  /\ \A c \in 1..Len(concats) : concats[c].manifest = tts
                  /\ copies = <<>>
                  /\ Succeeded =>
                        /\ Len(concats) = 1
                        /\ Len(muxes) = 1 /\ muxes[1].audio = FinalAudio
            /\ (tts = <<>> /\ bg = <<>>) =>
                  /\ mixes = <<>> /\ concats = <<>> /\ muxes = <<>>
                  /\ Succeeded => Len(copies) = 1

C27_Witness ==
    /\ Succeeded
    /\ av_call.tts_audios = <<Speech1, Speech2>>
    /\ av_call.background_audios = <<Music1, Music2>>
    /\ Len(RunsAmong(av_result.log, {"mix"})) = 2
    /\ Len(RunsAmong(av_result.log, {"mux"})) = 1

(***************************************************************************)
(* Claims about the character name, under SpecParse.                       *)
(***************************************************************************)
TrimmedBeforeColon(desc) ==
    IF HasColon(desc) THEN strip(split_colon_0(desc)) ELSE strip(desc)

\* C28: the character name resolved from an image description is the
\* trimmed substring before the first colon, or the whole trimmed
\* description when it has no colon; in particular the name never has
\* leading or trailing whitespace.
C28_NameIsTrimmedBeforeColon ==
    \A parse \in {ps_first, ps_second} :
        parse.made =>
            \A id \in parse.identities :
                /\ id.name = TrimmedBeforeColon(id.desc)
                /\ id.name = strip(id.name)

(***************************************************************************)
(* Claims about a raising expansion collaborator, under Spec.              *)
(***************************************************************************)
\* C29: an exception of an unexpected kind (a RuntimeError, not an API or
\* request failure) raised while the expansion collaborator is called is
\* reported by generate_video_async with a message containing 'Unexpected
\* error occurred', with no parsed structure, empty artifact lists and no
\* final video.
C29_UnexpectedErrorReported ==
    (pc = "done" /\ detailed_script.state = "raised"
                 /\ detailed_script.exc = <<"RuntimeError">>) =>
        /\ ~result.raised
        /\ result.value[1][1] = "Error: Unexpected error occurred"
        /\ result.value[2] = None
        /\ \A k \in 3..6 : result.value[k] = <<>>
        /\ result.value[7] = None

====
